---------------------------- MODULE Spec2Model ----------------------------
(***************************************************************************)
(* Model of the RotaryEncoder library (src/src/RotaryEncoder.h,            *)
(* src/src/RotaryEncoder.cpp): a polled quadrature decoder with a bounded  *)
(* counter and a push button with long-press detection.                    *)
(*                                                                         *)
(* Integers keep their width: int and unsigned int are IntBits wide,       *)
(* unsigned long (the millisecond clock, the timeout) is ClockBits wide.   *)
(***************************************************************************)
EXTENDS Integers, Sequences, FiniteSets

\* ------------------------------------------------------------------------
\* Bounds of the model
\* ------------------------------------------------------------------------

\* width of int / unsigned int in bits
IntBits == 5

\* width of unsigned long (millis(), timeout, timePressed) in bits
ClockBits == 3

\* longest time between two consecutive clock reads
MaxDt == 3

\* forward cycles driven in SpecCycles
MaxCycles == 11

\* the quadrature states forced in SpecHeal are -MaxForced .. -1
MaxForced == 4

IntMod == 2 ^ IntBits
IntMin == -(2 ^ (IntBits - 1))
IntMax == 2 ^ (IntBits - 1) - 1
UIntMax == IntMod - 1
ClockMod == 2 ^ ClockBits

\* ------------------------------------------------------------------------
\* Program constants
\* ------------------------------------------------------------------------

LOW == 0
HIGH == 1

None == 0
Forward == 1
Reverse == 2
ButtonPressed == 4
ButtonLongPressed == 8
ButtonReleased == 16

\* the pin number that disables the switch, and a pin that enables it
NoSwitchPin == -1
SomeSwitchPin == 2

\* values the constructor stores
InitLowerLimit == 0
InitUpperLimit == 10
InitStepWidth == 1

\* the table with the forward step out of state 3 lost
transitionNoForward ==
    << <<0, 1, 2, 0, 4, 5, -2>>,
       <<1, 1, 2, 3, 4, 6, 6>>,
       <<4, 1, 3, 3, 4, 5, 6>>,
       <<0, 2, 2, 3, 5, 5, 6>> >>

\* transition[input][state]: -1 a completed forward step, -2 a reverse one
\* the table with state 1 falling back to rest on (0,0)
transitionBounce ==
    << <<0, 0, 2, -1, 4, 5, -2>>,
       <<1, 1, 2, 3, 4, 6, 6>>,
       <<4, 1, 3, 3, 4, 5, 6>>,
       <<0, 2, 2, 3, 5, 5, 6>> >>

\* the table with an entry that is no state: 7 for state 6 on (1,1)
transitionStray ==
    << <<0, 1, 2, -1, 4, 5, -2>>,
       <<1, 1, 2, 3, 4, 6, 6>>,
       <<4, 1, 3, 3, 4, 5, 6>>,
       <<0, 2, 2, 3, 5, 5, 7>> >>

\* the table reporting the forward step a quarter cycle early, on (0,1)
transitionEarly ==
    << <<0, 1, 2, -1, 4, 5, -2>>,
       <<1, 1, 2, 3, 4, 6, 6>>,
       <<4, 1, -1, 3, 4, 5, 6>>,
       <<0, 2, 2, 3, 5, 5, 6>> >>

\* the table with state 1 advancing on a repeated sample (1,0)
transitionCreep ==
    << <<0, 1, 2, -1, 4, 5, -2>>,
       <<1, 2, 2, 3, 4, 6, 6>>,
       <<4, 1, 3, 3, 4, 5, 6>>,
       <<0, 2, 2, 3, 5, 5, 6>> >>

transition ==
    << <<0, 1, 2, -1, 4, 5, -2>>,
       <<1, 1, 2, 3, 4, 6, 6>>,
       <<4, 1, 3, 3, 4, 5, 6>>,
       <<0, 2, 2, 3, 5, 5, 6>> >>

\* ------------------------------------------------------------------------
\* State
\* ------------------------------------------------------------------------

VARIABLES
    switchPin,      \* int8_t switchPin
    lowerLimit,     \* int lowerLimit
    upperLimit,     \* int upperLimit
    stepWidth,      \* unsigned int stepWidth
    count,          \* int count
    encoderStatus,  \* int encoderStatus
    switchStatus,   \* int switchStatus
    timeout,        \* unsigned long timeout
    timePressed,    \* unsigned long timePressed
    lastResult,     \* encoderStatus_t lastResult
    clock,          \* what millis() read at the last poll (0 at boot)
    op,             \* the operation that ran last
    arg,            \* the arguments of the last setCount or setRange
    result,         \* what the last poll returned
    delayed,        \* whether the last poll ran delay(10)
    fwd,            \* observer of the forward sample sequence
    rev,            \* observer of the reverse sample sequence
    cycle,          \* observer of the forward cycles driven since construction
    press,          \* observer of the current sustained press
    samp,           \* the samples of the poll that ran last, if a poll did
    rep,            \* observer of a cycle polled with repeated samples
    twin,           \* a second decoder polled with the same phase samples
    down            \* whether the last button edge reported was a press

progVars == <<switchPin, lowerLimit, upperLimit, stepWidth, count,
              encoderStatus, switchStatus, timeout, timePressed, lastResult>>
callVars == <<clock, op, arg, result, delayed>>
obsVars == <<fwd, rev, cycle, press, samp, rep, twin, down>>
vars == <<progVars, callVars, obsVars>>

\* ------------------------------------------------------------------------
\* Arithmetic of the C types
\* ------------------------------------------------------------------------

\* int -> unsigned int (usual arithmetic conversion)
ToUnsigned(i) == i % IntMod

\* unsigned int -> int (passing an unsigned value to an int parameter)
ToInt(u) == IF u > IntMax THEN u - IntMod ELSE u

\* getCount()+stepWidth: int + unsigned int, computed as unsigned int
CountPlusStep(c, st) == (ToUnsigned(c) + st) % IntMod

\* getCount()-stepWidth: int - unsigned int, computed as unsigned int
CountMinusStep(c, st) == (ToUnsigned(c) - st) % IntMod

\* millis() - timePressed in unsigned long
Elapsed(t, t0) == (t - t0) % ClockMod

\* operator | of encoderStatus_t
RECURSIVE BitOr(_, _)
BitOr(X, Y) ==
    IF X = 0 THEN Y
    ELSE IF Y = 0 THEN X
    ELSE (IF X % 2 = 1 \/ Y % 2 = 1 THEN 1 ELSE 0)
         + 2 * BitOr(X \div 2, Y \div 2)

\* whether the flag set r contains flag f (f a single bit)
Has(r, f) == (r \div f) % 2 = 1


\* ------------------------------------------------------------------------
\* Construction
\* ------------------------------------------------------------------------

\* RotaryEncoder::RotaryEncoder(aPhaseAPin, aPhaseBPin, aSwitchPin)
Construct(aSwitchPin) ==
    /\ switchPin = aSwitchPin
    /\ lowerLimit = InitLowerLimit
    /\ upperLimit = InitUpperLimit
    /\ stepWidth = InitStepWidth
    /\ count = 0
    /\ encoderStatus = 0
    /\ switchStatus = 0
    /\ timeout = 0
    /\ timePressed = 0
    /\ lastResult = None

\* observers at rest
IdleSeq == [pos |-> -1, enc0 |-> 0, cnt0 |-> 0, nF |-> 0, nR |-> 0,
            done |-> FALSE, dEnc0 |-> 0, dCnt0 |-> 0, dF |-> 0, dR |-> 0]
IdleCycle == [n |-> 0, pos |-> 0]
IdlePress == [high |-> FALSE, longs |-> 0, at |-> 0, begun |-> FALSE,
              since |-> 0, steady |-> FALSE]
IdleSamp == [abs |-> <<>>, again |-> FALSE]
IdleRep == [dir |-> None, ph |-> 0, first |-> FALSE, cnt0 |-> 0]
IdleTwin == [enc |-> 0, count |-> 0, mov |-> None]

Init ==
    /\ \E p \in {NoSwitchPin, SomeSwitchPin} : Construct(p)
    /\ clock = 0
    /\ op = "construct"
    /\ arg = <<>>
    /\ result = None
    /\ delayed = FALSE
    /\ fwd = IdleSeq
    /\ rev = IdleSeq
    /\ cycle = IdleCycle
    /\ press = IdlePress
    /\ samp = IdleSamp
    /\ rep = IdleRep
    /\ twin = IdleTwin
    /\ down = FALSE

\* ------------------------------------------------------------------------
\* Counter
\* ------------------------------------------------------------------------

\* RotaryEncoder::getCount
getCount == count

\* setCount without the range check
setCountValueUnchecked(c, lo, hi, aCount) == aCount

\* setCount clamping to the nearer limit instead of rejecting
setCountValueClamped(c, lo, hi, aCount) ==
    IF aCount < lo THEN lo ELSE IF aCount > hi THEN hi ELSE aCount

\* the value of count after setCount(aCount), given the limits lo and hi
\* and the count c before the call
setCountValue(c, lo, hi, aCount) ==
    IF aCount >= lo /\ aCount <= hi THEN aCount ELSE c

\* setRange storing the limits without looking at the count
setRangeValueKept(c, lo, hi) == c

\* setRange without its second test
setRangeValueLowerOnly(c, lo, hi) ==
    IF c < lo THEN setCountValue(c, lo, hi, lo) ELSE c

\* the value of count after setRange(lo, hi, _), c being the count before
setRangeValue(c, lo, hi) ==
    LET c1 == IF c < lo THEN setCountValue(c, lo, hi, lo) ELSE c
    IN  IF c1 > hi THEN setCountValue(c1, lo, hi, hi) ELSE c1

\* a call is possible when the single thread of control is not inside
\* waitForStatus
Idle == op # "yield"

\* RotaryEncoder::setCount(aCount)
SetCount(aCount) ==
    /\ Idle
    /\ count' = setCountValue(count, lowerLimit, upperLimit, aCount)
    /\ op' = "setCount"
    /\ arg' = <<aCount>>
    /\ UNCHANGED <<switchPin, lowerLimit, upperLimit, stepWidth,
                   encoderStatus, switchStatus, timeout, timePressed,
                   lastResult, clock, result, delayed>>

\* RotaryEncoder::setRange(aLowerLimit, aUpperLimit, aStepWidth)
SetRange(aLowerLimit, aUpperLimit, aStepWidth) ==
    /\ Idle
    /\ lowerLimit' = aLowerLimit
    /\ upperLimit' = aUpperLimit
    /\ stepWidth' = aStepWidth
    /\ count' = setRangeValue(count, aLowerLimit, aUpperLimit)
    /\ op' = "setRange"
    /\ arg' = <<aLowerLimit, aUpperLimit, aStepWidth>>
    /\ UNCHANGED <<switchPin, encoderStatus, switchStatus, timeout,
                   timePressed, lastResult, clock, result, delayed>>

\* RotaryEncoder::setSwitchTimeout(aTimeout)
SetSwitchTimeout(aTimeout) ==
    /\ Idle
    /\ timeout' = aTimeout
    /\ op' = "setSwitchTimeout"
    /\ arg' = <<>>
    /\ UNCHANGED <<switchPin, lowerLimit, upperLimit, stepWidth, count,
                   encoderStatus, switchStatus, timePressed, lastResult,
                   clock, result, delayed>>

\* RotaryEncoder::begin
Begin ==
    /\ Idle
    /\ encoderStatus' = 0
    /\ switchStatus' = 0
    /\ op' = "begin"
    /\ arg' = <<>>
    /\ UNCHANGED <<switchPin, lowerLimit, upperLimit, stepWidth, count,
                   timeout, timePressed, lastResult, clock, result, delayed>>

\* RotaryEncoder::end
End ==
    /\ Idle
    /\ op' = "end"
    /\ arg' = <<>>
    /\ UNCHANGED <<progVars, clock, result, delayed>>

\* ------------------------------------------------------------------------
\* Polling
\* ------------------------------------------------------------------------

\* a negative state mirrored instead of cleared
NormaliseAbs(e) == IF e < 0 THEN -e ELSE e

\* if (encoderStatus < 0) encoderStatus = 0
Normalise(e) == IF e < 0 THEN 0 ELSE e

\* the four table lookups, one after the other
Lookup(e, a, b) ==
    LET e1 == IF a = LOW /\ b = LOW THEN transition[1][e + 1] ELSE e
        e2 == IF a = HIGH /\ b = LOW THEN transition[2][e1 + 1] ELSE e1
        e3 == IF a = LOW /\ b = HIGH THEN transition[3][e2 + 1] ELSE e2
    IN  IF a = HIGH /\ b = HIGH THEN transition[4][e3 + 1] ELSE e3

\* the movement flag with Reverse added to Forward instead of replacing it
RotationFlagBoth(e) ==
    CASE e = -1 -> Forward
      [] e = -2 -> BitOr(Forward, Reverse)
      [] OTHER -> None

\* switch (encoderStatus): the movement flag
RotationFlag(e) ==
    CASE e = -1 -> Forward
      [] e = -2 -> Reverse
      [] OTHER -> None

\* switch (encoderStatus): the count after the update
RotationCount(e, c, lo, hi, st) ==
    CASE e = -1 -> setCountValue(c, lo, hi, ToInt(CountPlusStep(c, st)))
      [] e = -2 -> setCountValue(c, lo, hi, ToInt(CountMinusStep(c, st)))
      [] OTHER -> c

\* the switch read whatever switchPin is
SwitchSampleAlways(pin) == pin

\* the level the poll works with: the pin's, or LOW without a switch
SwitchSample(pin) == IF switchPin >= 0 THEN pin ELSE LOW

\* the long-press test without the test of timeout
LongPressAnyTimeout(t) ==
    timePressed # 0 /\ Elapsed(t, timePressed) > timeout

\* the long-press test of an unchanged HIGH switch at clock value t
LongPress(t) ==
    timePressed # 0 /\ timeout # 0 /\ Elapsed(t, timePressed) > timeout

\* "Check switch" reporting the level in place of the rising edge
SwitchFlagsLevel(r, s, t) ==
    IF s = HIGH THEN BitOr(r, ButtonPressed)
    ELSE IF s # switchStatus THEN BitOr(r, ButtonReleased)
    ELSE r

\* "Check switch" with = in place of |=: the button flag replaces r
SwitchFlagsAlone(r, s, t) ==
    IF s # switchStatus
    THEN IF s = HIGH THEN ButtonPressed ELSE ButtonReleased
    ELSE IF s = HIGH /\ LongPress(t) THEN ButtonLongPressed ELSE r

\* "Check switch": the flags added to r for sample s at clock value t
SwitchFlags(r, s, t) ==
    IF s # switchStatus
    THEN IF s = HIGH THEN BitOr(r, ButtonPressed)
                     ELSE BitOr(r, ButtonReleased)
    ELSE IF s = HIGH /\ LongPress(t) THEN BitOr(r, ButtonLongPressed)
                                     ELSE r

\* "Check switch" leaving timePressed set after a long press
SwitchTimeKept(s, t) ==
    IF s # switchStatus
    THEN IF s = HIGH THEN t ELSE 0
    ELSE timePressed

\* "Check switch": timePressed afterwards
SwitchTime(s, t) ==
    IF s # switchStatus
    THEN IF s = HIGH THEN t ELSE 0
    ELSE IF s = HIGH /\ LongPress(t) THEN 0 ELSE timePressed

\* what getStatus returns for the samples a, b and pin taken dt ms after
\* the previous poll
PollResult(a, b, pin, dt) ==
    SwitchFlags(RotationFlag(Lookup(Normalise(encoderStatus), a, b)),
                SwitchSample(pin), (clock + dt) % ClockMod)

\* the body of RotaryEncoder::getStatus. The samples a, b and pin are
\* what digitalRead returns; dt is the time since the previous poll, so
\* millis() reads clock + dt. delay(10) only lengthens the time to the
\* next poll, which dt ranges over anyway; delayed records that it ran.
Poll(a, b, pin, dt) ==
    LET s == SwitchSample(pin)
        t == (clock + dt) % ClockMod
        e == Lookup(Normalise(encoderStatus), a, b)
        r == PollResult(a, b, pin, dt)
    IN  /\ encoderStatus' = e
        /\ count' = RotationCount(e, getCount, lowerLimit, upperLimit,
                                  stepWidth)
        /\ timePressed' = SwitchTime(s, t)
        /\ switchStatus' = (IF s # switchStatus THEN s ELSE switchStatus)
        /\ delayed' = (r # lastResult)
        /\ lastResult' = r
        /\ result' = r
        /\ clock' = t
        /\ arg' = <<>>
        /\ UNCHANGED <<switchPin, lowerLimit, upperLimit, stepWidth, timeout>>

\* RotaryEncoder::getStatus
GetStatus(a, b, pin, dt) ==
    /\ Idle
    /\ Poll(a, b, pin, dt)
    /\ op' = "getStatus"

\* waitForStatus returning after its first poll, whatever it yields
WaitForStatusOnce(a, b, pin, dt) ==
    /\ Poll(a, b, pin, dt)
    /\ op' = "waitForStatus"

\* RotaryEncoder::waitForStatus: one turn of its loop. A poll that
\* returns None is followed by yield() and another turn; any other result
\* is returned.
WaitForStatus(a, b, pin, dt) ==
    /\ Poll(a, b, pin, dt)
    /\ op' = IF PollResult(a, b, pin, dt) = None THEN "yield"
                                                ELSE "waitForStatus"

\* the last operation was a poll
Polled == op \in {"getStatus", "yield", "waitForStatus"}


\* ------------------------------------------------------------------------
\* Observers: what the callers of the operations have seen so far. They
\* read the program's state and never change it.
\* ------------------------------------------------------------------------

Min(x, y) == IF x < y THEN x ELSE y

Bit(r, f) == IF Has(r, f) THEN 1 ELSE 0

\* the samples that follow (0,0) in a forward and in a reverse cycle
ForwardSamples == << <<HIGH, LOW>>, <<HIGH, HIGH>>, <<LOW, HIGH>>, <<LOW, LOW>> >>
ReverseSamples == << <<LOW, HIGH>>, <<HIGH, HIGH>>, <<HIGH, LOW>>, <<LOW, LOW>> >>

\* a full forward cycle, its opening (0,0) included
CycleSamples == << <<LOW, LOW>> >> \o ForwardSamples

\* The observer o of the sample sequence pat after a poll of (a, b): a
\* poll of (0,0) arms it with the state the poll left, each following poll
\* of the next sample of pat advances it and counts the Forward and
\* Reverse results, and the poll of the last sample completes it (done).
SeqAfterPoll(o, pat, a, b) ==
    LET armed == [IdleSeq EXCEPT !.pos = 0, !.enc0 = encoderStatus',
                                 !.cnt0 = count']
        f == Bit(result', Forward)
        r == Bit(result', Reverse)
    IN  IF o.pos \in 0..3 /\ <<a, b>> = pat[o.pos + 1]
        THEN IF o.pos = 3
             THEN [armed EXCEPT !.done = TRUE, !.dEnc0 = o.enc0,
                                !.dCnt0 = o.cnt0, !.dF = o.nF + f,
                                !.dR = o.nR + r]
             ELSE [IdleSeq EXCEPT !.pos = o.pos + 1, !.enc0 = o.enc0,
                                  !.cnt0 = o.cnt0, !.nF = o.nF + f,
                                  !.nR = o.nR + r]
        ELSE IF <<a, b>> = <<LOW, LOW>> THEN armed ELSE IdleSeq

\* The observer of the sustained press after a poll that sampled the
\* switch as s, dt ms after the previous poll: a LOW sample ends the run
\* of HIGH samples; a HIGH sample extends it, counting the polls that
\* reported ButtonLongPressed and the time since ButtonPressed was
\* reported.
PressAfterPoll(p, s, dt) ==
    IF s = LOW
    THEN IdlePress
    ELSE LET run == IF p.high THEN p ELSE [IdlePress EXCEPT !.high = TRUE]
             n == Min(run.longs + Bit(result', ButtonLongPressed), 2)
         IN  IF Has(result', ButtonPressed)
             THEN [run EXCEPT !.longs = n, !.at = clock', !.since = 0,
                              !.steady = TRUE]
             ELSE [run EXCEPT !.longs = n,
                              !.since = Min(run.since + dt, ClockMod)]

\* The observer of the samples after a poll that sampled (a, b, s): the
\* samples, and whether the poll immediately followed a poll of the same
\* samples that returned None.
SampAfterPoll(o, a, b, s) ==
    [abs |-> <<a, b, s>>,
     again |-> o.abs = <<a, b, s>> /\ result = None]

\* The observer o of a cycle polled with repeated samples, after a poll of
\* (a, b). A poll of the first sample of the forward or of the reverse
\* cycle that starts from state 0 or from a sentinel arms it (dir, phase
\* 1, the count at that moment); a poll of the sample of the current
\* phase repeats the phase, a poll of the next sample of the cycle opens
\* the next phase (first), and any other poll ends the observation.
RepAfterPoll(o, a, b) ==
    LET pat == IF o.dir = Reverse THEN ReverseSamples ELSE ForwardSamples
    IN  IF o.dir # None /\ <<a, b>> = pat[o.ph]
        THEN [o EXCEPT !.first = FALSE]
        ELSE IF o.dir # None /\ o.ph < 4 /\ <<a, b>> = pat[o.ph + 1]
        THEN [o EXCEPT !.ph = o.ph + 1, !.first = TRUE]
        ELSE IF encoderStatus <= 0 /\ <<a, b>> = ForwardSamples[1]
        THEN [dir |-> Forward, ph |-> 1, first |-> TRUE, cnt0 |-> count]
        ELSE IF encoderStatus <= 0 /\ <<a, b>> = ReverseSamples[1]
        THEN [dir |-> Reverse, ph |-> 1, first |-> TRUE, cnt0 |-> count]
        ELSE IdleRep

\* The second decoder o after its poll of (a, b). It has the range and the
\* step of the first and a switch that is never pressed, so its poll ends
\* with the movement part of getStatus: the lookup, the counter update and
\* the movement flag, to which "Check switch" adds nothing.
TwinAfterPoll(o, a, b) ==
    LET e == Lookup(Normalise(o.enc), a, b)
    IN  [enc |-> e,
         count |-> RotationCount(e, o.count, lowerLimit, upperLimit,
                                 stepWidth),
         mov |-> RotationFlag(e)]

\* The observer of the button edges after a poll: whether the edge
\* reported last, by this poll or an earlier one, was ButtonPressed.
DownAfterPoll(d) ==
    IF Has(result', ButtonPressed) THEN TRUE
    ELSE IF Has(result', ButtonReleased) THEN FALSE
    ELSE d

\* The same observer, recording also the quadrature state the poll
\* started from.
HealAfterPoll(o, a, b, s) ==
    [abs |-> <<a, b, s>>,
     again |-> o.abs = <<a, b, s>> /\ result = None,
     from |-> encoderStatus]

\* ------------------------------------------------------------------------
\* Inputs
\* ------------------------------------------------------------------------

\* what digitalRead returns
Level == {LOW, HIGH}

\* limits passed to setRange: ordered, equal and inverted pairs, ranges
\* that leave the count below, inside and above
LimitArgs == {-1, 0, 2}

\* step widths passed to setRange: none, one, and the largest unsigned
\* value (what passing -1 converts to)
StepArgs == {0, 1, UIntMax}

\* values passed to setCount: below, inside and above the ranges
CountArgs == {-2, 0, 3}

\* timeouts passed to setSwitchTimeout: disabled, and one that the time
\* between two polls can stay under or exceed
TimeoutArgs == {0, 2}

\* time between two polls, in the specifications that let time pass
DtArgs == {0, 1, MaxDt}

\* negative values the quadrature state is forced to: the two sentinels
\* and values the table never yields
ForcedStates == (-MaxForced)..(-1)

\* phase samples of a knob that rests or bounces on phase A
RestArgs == {<<LOW, LOW>>, <<HIGH, LOW>>}

\* ------------------------------------------------------------------------
\* Spec: every operation in any order, all polls within one millisecond
\* (time matters to the switch alone, which SpecSwitch explores)
\* ------------------------------------------------------------------------

Next ==
    \/ Begin /\ UNCHANGED obsVars
    \/ End /\ UNCHANGED obsVars
    \/ \E t \in TimeoutArgs : SetSwitchTimeout(t) /\ UNCHANGED obsVars
    \/ \E lo, hi \in LimitArgs, st \in StepArgs :
           SetRange(lo, hi, st) /\ UNCHANGED obsVars
    \/ \E v \in CountArgs : SetCount(v) /\ UNCHANGED obsVars
    \/ \E a, b, pin \in Level :
           GetStatus(a, b, pin, 0) /\ UNCHANGED obsVars
    \/ \E a, b, pin \in Level :
           WaitForStatus(a, b, pin, 0) /\ UNCHANGED obsVars

Spec == Init /\ [][Next]_vars

\* ------------------------------------------------------------------------
\* SpecQuad: the decoder and the counter, with the observers of the
\* forward and the reverse sample sequence. Any operation other than a
\* poll breaks a sequence off.
\* ------------------------------------------------------------------------

SeqPolled(a, b) ==
    /\ fwd' = SeqAfterPoll(fwd, ForwardSamples, a, b)
    /\ rev' = SeqAfterPoll(rev, ReverseSamples, a, b)
    /\ UNCHANGED <<cycle, press, samp, rep, twin, down>>

SeqBroken ==
    /\ fwd' = IdleSeq
    /\ rev' = IdleSeq
    /\ UNCHANGED <<cycle, press, samp, rep, twin, down>>

NextQuad ==
    \/ \E a, b, pin \in Level : GetStatus(a, b, pin, 0) /\ SeqPolled(a, b)
    \/ \E a, b, pin \in Level : WaitForStatus(a, b, pin, 0) /\ SeqPolled(a, b)
    \/ Begin /\ SeqBroken
    \/ \E lo, hi \in LimitArgs, st \in StepArgs :
           SetRange(lo, hi, st) /\ SeqBroken
    \/ \E v \in CountArgs : SetCount(v) /\ SeqBroken

SpecQuad == Init /\ [][NextQuad]_vars

\* ------------------------------------------------------------------------
\* SpecCycles: a freshly constructed decoder polled through forward
\* cycles (0,0),(1,0),(1,1),(0,1),(0,0), one after the other, with any
\* switch samples and any time between the polls
\* ------------------------------------------------------------------------

DriveCycle(pin, dt) ==
    /\ cycle.n < MaxCycles
    /\ GetStatus(CycleSamples[cycle.pos + 1][1],
                 CycleSamples[cycle.pos + 1][2], pin, dt)
    /\ cycle' = IF cycle.pos = 4 THEN [n |-> cycle.n + 1, pos |-> 0]
                                 ELSE [n |-> cycle.n, pos |-> cycle.pos + 1]
    /\ UNCHANGED <<fwd, rev, press, samp, rep, twin, down>>

NextCycles == \E pin \in Level, dt \in DtArgs : DriveCycle(pin, dt)

SpecCycles == Init /\ [][NextCycles]_vars

\* ------------------------------------------------------------------------
\* SpecSwitch: the switch and the clock, with the observer of the
\* sustained press. The phase samples are those of a knob at rest
\* (RestArgs), which leave the counter alone.
\* ------------------------------------------------------------------------

PressPolled(pin, dt) ==
    /\ press' = PressAfterPoll(press, SwitchSample(pin), dt)
    /\ UNCHANGED <<fwd, rev, cycle, samp, rep, twin, down>>

PressBegun ==
    /\ press' = [press EXCEPT !.begun = @ \/ press.high]
    /\ UNCHANGED <<fwd, rev, cycle, samp, rep, twin, down>>

PressRetimed ==
    /\ press' = [press EXCEPT !.steady = FALSE]
    /\ UNCHANGED <<fwd, rev, cycle, samp, rep, twin, down>>

NextSwitch ==
    \/ Begin /\ PressBegun
    \/ \E t \in TimeoutArgs : SetSwitchTimeout(t) /\ PressRetimed
    \/ \E ab \in RestArgs, pin \in Level, dt \in DtArgs :
           GetStatus(ab[1], ab[2], pin, dt) /\ PressPolled(pin, dt)
    \/ \E ab \in RestArgs, pin \in Level, dt \in DtArgs :
           WaitForStatus(ab[1], ab[2], pin, dt) /\ PressPolled(pin, dt)

SpecSwitch == Init /\ [][NextSwitch]_vars

\* ------------------------------------------------------------------------
\* SpecSame: getStatus polls of any samples at any pace, with the observer
\* of the samples of the last poll. A change of the timeout in between
\* clears it.
\* ------------------------------------------------------------------------

SampPolled(a, b, pin) ==
    /\ samp' = SampAfterPoll(samp, a, b, SwitchSample(pin))
    /\ UNCHANGED <<fwd, rev, cycle, press, rep, twin, down>>

SampCleared ==
    /\ samp' = IdleSamp
    /\ UNCHANGED <<fwd, rev, cycle, press, rep, twin, down>>

NextSame ==
    \/ \E t \in TimeoutArgs : SetSwitchTimeout(t) /\ SampCleared
    \/ \E a, b, pin \in Level, dt \in DtArgs :
           GetStatus(a, b, pin, dt) /\ SampPolled(a, b, pin)

SpecSame == Init /\ [][NextSame]_vars

\* ------------------------------------------------------------------------
\* SpecHeal: getStatus as a function of the quadrature state it starts
\* from. The decoder is as constructed except for encoderStatus, which
\* holds any of ForcedStates, and is then polled with any samples.
\* ------------------------------------------------------------------------

InitHeal ==
    /\ switchPin \in {NoSwitchPin, SomeSwitchPin}
    /\ lowerLimit = InitLowerLimit
    /\ upperLimit = InitUpperLimit
    /\ stepWidth = InitStepWidth
    /\ count = 0
    /\ encoderStatus \in ForcedStates
    /\ switchStatus = 0
    /\ timeout = 0
    /\ timePressed = 0
    /\ lastResult = None
    /\ clock = 0
    /\ op = "construct"
    /\ arg = <<>>
    /\ result = None
    /\ delayed = FALSE
    /\ fwd = IdleSeq
    /\ rev = IdleSeq
    /\ cycle = IdleCycle
    /\ press = IdlePress
    /\ samp = [abs |-> <<>>, again |-> FALSE, from |-> 0]
    /\ rep = IdleRep
    /\ twin = IdleTwin
    /\ down = FALSE

HealPolled(a, b, pin) ==
    /\ samp' = HealAfterPoll(samp, a, b, SwitchSample(pin))
    /\ UNCHANGED <<fwd, rev, cycle, press, rep, twin, down>>

NextHeal ==
    \/ \E a, b, pin \in Level : GetStatus(a, b, pin, 0) /\ HealPolled(a, b, pin)
    \/ \E a, b, pin \in Level :
           WaitForStatus(a, b, pin, 0) /\ HealPolled(a, b, pin)

SpecHeal == InitHeal /\ [][NextHeal]_vars

\* ------------------------------------------------------------------------
\* SpecRepeat: the decoder and the counter, with the observer of cycles
\* polled with repeated samples. Any operation other than a poll ends an
\* observation.
\* ------------------------------------------------------------------------

RepPolled(a, b) ==
    /\ rep' = RepAfterPoll(rep, a, b)
    /\ UNCHANGED <<fwd, rev, cycle, press, samp, twin, down>>

RepBroken ==
    /\ rep' = IdleRep
    /\ UNCHANGED <<fwd, rev, cycle, press, samp, twin, down>>

NextRepeat ==
    \/ \E a, b, pin \in Level : GetStatus(a, b, pin, 0) /\ RepPolled(a, b)
    \/ \E a, b, pin \in Level : WaitForStatus(a, b, pin, 0) /\ RepPolled(a, b)
    \/ Begin /\ RepBroken
    \/ \E lo, hi \in LimitArgs, st \in StepArgs :
           SetRange(lo, hi, st) /\ RepBroken
    \/ \E v \in CountArgs : SetCount(v) /\ RepBroken

SpecRepeat == Init /\ [][NextRepeat]_vars

\* ------------------------------------------------------------------------
\* SpecTwin: two decoders polled with the same phase samples. The first
\* is the decoder of the state variables, with any switch samples,
\* timeouts and times between polls; the second (twin) has its switch
\* released throughout; setRange is called on both. Two decoders with arbitrary switch inputs agree
\* with each other if each agrees with the second one.
\* ------------------------------------------------------------------------

TwinPolled(a, b) ==
    /\ twin' = TwinAfterPoll(twin, a, b)
    /\ UNCHANGED <<fwd, rev, cycle, press, samp, rep, down>>

TwinIdle == UNCHANGED obsVars

\* setRange called on both decoders with the same arguments
TwinRanged(aLowerLimit, aUpperLimit) ==
    /\ twin' = [twin EXCEPT
                  !.count = setRangeValue(@, aLowerLimit, aUpperLimit)]
    /\ UNCHANGED <<fwd, rev, cycle, press, samp, rep, down>>

NextTwin ==
    \/ \E st \in StepArgs : SetRange(0, 2, st) /\ TwinRanged(0, 2)
    \/ \E t \in TimeoutArgs : SetSwitchTimeout(t) /\ TwinIdle
    \/ \E a, b, pin \in Level, dt \in DtArgs :
           GetStatus(a, b, pin, dt) /\ TwinPolled(a, b)

SpecTwin == Init /\ [][NextTwin]_vars

\* ------------------------------------------------------------------------
\* SpecButtons: the switch and the clock of a decoder on which begin() is
\* not called after construction, with the observer of the button edges.
\* getStatus polls any phase samples, waitForStatus those of a knob at
\* rest (RestArgs).
\* ------------------------------------------------------------------------

DownPolled ==
    /\ down' = DownAfterPoll(down)
    /\ UNCHANGED <<fwd, rev, cycle, press, samp, rep, twin>>

NextButtons ==
    \/ \E t \in TimeoutArgs : SetSwitchTimeout(t) /\ UNCHANGED obsVars
    \/ \E a, b, pin \in Level, dt \in DtArgs :
           GetStatus(a, b, pin, dt) /\ DownPolled
    \/ \E ab \in RestArgs, pin \in Level, dt \in DtArgs :
           WaitForStatus(ab[1], ab[2], pin, dt) /\ DownPolled

SpecButtons == Init /\ [][NextButtons]_vars

\* ------------------------------------------------------------------------
\* Claims
\* ------------------------------------------------------------------------

InRange(v) == lowerLimit <= v /\ v <= upperLimit

\* v reduced modulo 2^IntBits into the range of int
Wrap(v) == ((v - IntMin) % IntMod) + IntMin

\* the count a step from c to v leaves: v inside the limits, c otherwise
Stepped(c, v) == IF InRange(v) THEN v ELSE c

\* C1 as stated: whenever the previously polled sample was (0,0), whatever
\* was polled before it, polling (1,0),(1,1),(0,1),(0,0) returns exactly
\* one Forward and no Reverse and leaves count + stepWidth if that lies
\* within the limits and the earlier count otherwise; symmetrically for
\* (0,1),(1,1),(1,0),(0,0) with Reverse and count - stepWidth.
C1_AnyStart ==
    /\ fwd.done =>
           /\ fwd.dF = 1
           /\ fwd.dR = 0
           /\ count = Stepped(fwd.dCnt0, fwd.dCnt0 + stepWidth)
    /\ rev.done =>
           /\ rev.dR = 1
           /\ rev.dF = 0
           /\ count = Stepped(rev.dCnt0, rev.dCnt0 - stepWidth)

\* C1 amended: when the (0,0) poll before the sequence did not leave the
\* quadrature state in the half-cycle of the opposite direction (4..6
\* before the forward sequence, 1..3 before the reverse one), the sequence
\* returns exactly one Forward (resp. Reverse) and none of the other, and
\* the count afterwards is v, the earlier count plus (resp. minus)
\* stepWidth reduced modulo 2^IntBits into the range of int, if v lies
\* within the limits and the earlier count otherwise.
C1_CycleFromRest ==
    /\ fwd.done /\ fwd.dEnc0 \notin 4..6 =>
           /\ fwd.dF = 1
           /\ fwd.dR = 0
           /\ count = Stepped(fwd.dCnt0, Wrap(fwd.dCnt0 + stepWidth))
    /\ rev.done /\ rev.dEnc0 \notin 1..3 =>
           /\ rev.dR = 1
           /\ rev.dF = 0
           /\ count = Stepped(rev.dCnt0, Wrap(rev.dCnt0 - stepWidth))

\* a forward sequence right after a reported step has moved the count
C1_Witness ==
    /\ fwd.done
    /\ fwd.dEnc0 = -1
    /\ stepWidth = 1
    /\ count = fwd.dCnt0 + 1

\* C2: a freshly constructed decoder polled through n complete forward
\* cycles holds count min(n, 10) after the n-th cycle.
C2_CountAfterCycles ==
    cycle.pos = 0 => getCount = Min(cycle.n, 10)

\* more than ten cycles were driven and the count stayed at 10
C2_Witness ==
    /\ cycle.pos = 0
    /\ cycle.n = MaxCycles
    /\ cycle.n > 10
    /\ getCount = 10

\* C3 as stated: in every reachable state lowerLimit <= count <= upperLimit.
C3_AlwaysInRange == InRange(count)

\* C3 amended: in every reachable state whose limits are ordered
\* (lowerLimit <= upperLimit), lowerLimit <= count <= upperLimit.
C3_InRangeWhenOrdered == lowerLimit <= upperLimit => InRange(count)

\* a forward step was reported with the count at the upper limit
C3_Witness ==
    /\ op = "getStatus"
    /\ Has(result, Forward)
    /\ stepWidth = 1
    /\ lowerLimit < upperLimit
    /\ count = upperLimit

\* C4: setCount(v) leaves the counter and every other field unchanged
\* when v < lowerLimit or v > upperLimit, and sets count to exactly v,
\* changing nothing else, when lowerLimit <= v <= upperLimit.
C4_SetCount ==
    [][op' = "setCount" =>
          /\ count' = IF lowerLimit <= arg'[1] /\ arg'[1] <= upperLimit
                      THEN arg'[1] ELSE count
          /\ UNCHANGED <<switchPin, lowerLimit, upperLimit, stepWidth,
                         encoderStatus, switchStatus, timeout, timePressed,
                         lastResult, clock, result, delayed>>]_vars

\* setCount was called with a value outside ordered limits
C4_Witness ==
    /\ op = "setCount"
    /\ lowerLimit <= upperLimit
    /\ (arg[1] < lowerLimit \/ arg[1] > upperLimit)
    /\ count # arg[1]

\* the count setRange is said to leave: lower if the count was below
\* lower, upper if it was above upper, the count itself otherwise
Reclamped(c, lo, hi) == IF c < lo THEN lo ELSE IF c > hi THEN hi ELSE c

\* C5 as stated: after setRange(lower, upper, step), for every choice of
\* lower, upper and prior count, the count lies in [lower, upper]
\* (unchanged, lower or upper as the prior count lay inside, below or
\* above), and the limits and the step width hold the passed values.
C5_AnyLimits ==
    [][op' = "setRange" =>
          /\ lowerLimit' = arg'[1]
          /\ upperLimit' = arg'[2]
          /\ stepWidth' = arg'[3]
          /\ arg'[1] <= count' /\ count' <= arg'[2]
          /\ count' = Reclamped(count, arg'[1], arg'[2])]_vars

\* C5 amended: after setRange(lower, upper, step) the limits and the step
\* width hold the passed values; when lower <= upper the count lies in
\* [lower, upper] (unchanged, lower or upper as the prior count lay
\* inside, below or above); when lower > upper the count is unchanged.
C5_OrderedLimits ==
    [][op' = "setRange" =>
          /\ lowerLimit' = arg'[1]
          /\ upperLimit' = arg'[2]
          /\ stepWidth' = arg'[3]
          /\ arg'[1] <= arg'[2] =>
                 /\ arg'[1] <= count' /\ count' <= arg'[2]
                 /\ count' = Reclamped(count, arg'[1], arg'[2])
          /\ arg'[1] > arg'[2] => count' = count]_vars

\* setRange has pulled the count down to an upper limit below zero
C5_Witness ==
    /\ op = "setRange"
    /\ arg[1] <= arg[2]
    /\ upperLimit < 0
    /\ count = upperLimit

\* C6: no getStatus or waitForStatus result contains both Forward and
\* Reverse.
C6_OneDirection == ~(Has(result, Forward) /\ Has(result, Reverse))

\* waitForStatus has returned a reverse step together with a button flag
C6_Witness ==
    /\ op = "waitForStatus"
    /\ Has(result, Reverse)
    /\ Has(result, ButtonPressed)

\* the poll that reports ButtonLongPressed reads the clock more than
\* timeout ms after the poll that reported ButtonPressed, and no poll
\* reports ButtonReleased together with ButtonLongPressed
LongPressTimely ==
    /\ Polled /\ Has(result, ButtonLongPressed) =>
           /\ timeout > 0
           /\ Elapsed(clock, press.at) > timeout
    /\ Has(result, ButtonReleased) => ~Has(result, ButtonLongPressed)

\* C7 as stated: each sustained press (HIGH samples on consecutive polls)
\* has at most one poll that reports ButtonLongPressed, that poll reads
\* the clock more than T ms after the poll that reported ButtonPressed,
\* and the poll that reports ButtonReleased never reports
\* ButtonLongPressed.
C7_OncePerPress ==
    /\ press.longs <= 1
    /\ LongPressTimely

\* C7 amended: the same, for each sustained press during which begin() is
\* not called.
C7_OncePerPressNoBegin ==
    /\ ~press.begun => press.longs <= 1
    /\ LongPressTimely

\* a press without begin() has just reported its long press
C7_Witness ==
    /\ Polled
    /\ press.high
    /\ ~press.begun
    /\ press.longs = 1
    /\ Has(result, ButtonLongPressed)

\* C8: with timeout T > 0, a press that is held while the polls go on
\* and the clock passes T ms after the press is reported as
\* ButtonLongPressed by some poll, whatever the clock read at the press.
\* Stated on the poll that first finds more than T ms gone by: that poll
\* or an earlier one of the press has reported ButtonLongPressed.
C8_LongPressReported ==
    /\ Polled
    /\ press.high
    /\ press.steady
    /\ timeout > 0
    /\ press.since > timeout
    => press.longs >= 1

\* C9: while the timeout is 0 no poll returns ButtonLongPressed.
C9_NoTimeoutNoLongPress ==
    Polled /\ timeout = 0 => ~Has(result, ButtonLongPressed)

\* the switch has been held for longer than any timeout, with the press
\* timestamp still set and the timeout at 0
C9_Witness ==
    /\ Polled
    /\ timeout = 0
    /\ press.high
    /\ timePressed # 0
    /\ press.since > MaxDt
    /\ ~Has(result, ButtonLongPressed)

\* C10: without a switch (switch pin -1) no result contains ButtonPressed,
\* ButtonLongPressed or ButtonReleased, and the switch level and the
\* press timestamp stay at their initial values.
C10_NoSwitch ==
    switchPin = NoSwitchPin =>
        /\ ~Has(result, ButtonPressed)
        /\ ~Has(result, ButtonLongPressed)
        /\ ~Has(result, ButtonReleased)
        /\ switchStatus = 0
        /\ timePressed = 0

\* a decoder without a switch has been polled, with a timeout set and the
\* clock advanced
C10_Witness ==
    /\ switchPin = NoSwitchPin
    /\ op = "getStatus"
    /\ timeout > 0
    /\ clock > MaxDt

\* C11 as stated: a poll that immediately follows a poll of the same
\* samples (A,B,S) that returned None returns None too, leaves the count
\* and the quadrature state unchanged and runs no settling delay.
C11_SameSamplesNone ==
    [][(result = None /\ samp.abs # <<>> /\ samp'.abs = samp.abs) =>
          /\ result' = None
          /\ count' = count
          /\ encoderStatus' = encoderStatus
          /\ ~delayed']_vars

\* C11 amended: such a poll leaves the count and the quadrature state
\* unchanged and returns None without a settling delay, unless S is HIGH
\* and a switch timeout is set: then it may instead return
\* ButtonLongPressed alone, with the settling delay.
C11_SameSamplesNoneOrLongPress ==
    [][(result = None /\ samp.abs # <<>> /\ samp'.abs = samp.abs) =>
          /\ count' = count
          /\ encoderStatus' = encoderStatus
          /\ \/ result' = None /\ ~delayed'
             \/ /\ result' = ButtonLongPressed
                /\ delayed'
                /\ samp.abs[3] = HIGH
                /\ timeout > 0]_vars

\* a poll has returned None right after a poll of the same samples that
\* returned None, half-way through a cycle and with a long press pending
C11_Witness ==
    /\ samp.again
    /\ result = None
    /\ encoderStatus = 2
    /\ samp.abs[3] = HIGH
    /\ timeout > 0
    /\ timePressed # 0

\* what a poll of (a, b) leaves in the quadrature state when it starts
\* from state 0: column 0 of the table
FromRest(a, b) ==
    CASE a = LOW /\ b = LOW -> 0
      [] a = HIGH /\ b = LOW -> 1
      [] a = LOW /\ b = HIGH -> 4
      [] a = HIGH /\ b = HIGH -> 0

\* r is a set of flags of encoderStatus_t with at most one direction
ValidFlags(r) ==
    /\ r \in 0..(2 * ButtonReleased - 1)
    /\ ~(Has(r, Forward) /\ Has(r, Reverse))

\* C12: a poll that starts from a negative quadrature state (the
\* sentinels -1 and -2 included) leaves the quadrature state a poll of the
\* same samples from state 0 leaves, reports no movement and leaves the
\* count alone, as that poll does, and returns a valid flag set.
C12_SelfHealing ==
    [][(encoderStatus < 0 /\ samp'.abs # <<>>) =>
          /\ encoderStatus' = FromRest(samp'.abs[1], samp'.abs[2])
          /\ ~Has(result', Forward)
          /\ ~Has(result', Reverse)
          /\ count' = count
          /\ ValidFlags(result')]_vars

\* a poll of (1,0) has started from the forced state -MaxForced, which
\* the table never yields
C12_Witness ==
    /\ samp.abs # <<>>
    /\ samp.from = -MaxForced
    /\ samp.from < -2
    /\ samp.abs[1] = HIGH
    /\ samp.abs[2] = LOW
    /\ encoderStatus = 1

\* C13: waitForStatus returns only a result that is not None, and that
\* result is the one of its last poll, whose counter update is in place;
\* while it has not returned, every poll of it has yielded None and the
\* next step is another poll of it. So its run ends with the first poll
\* that does not yield None, and not before.
C13_WaitForStatus ==
    [][/\ op' = "waitForStatus" =>
             /\ result' # None
             /\ result' = lastResult'
             /\ Has(result', Forward) =>
                    count' = Stepped(count, Wrap(count + stepWidth))
             /\ Has(result', Reverse) =>
                    count' = Stepped(count, Wrap(count - stepWidth))
             /\ ~Has(result', Forward) /\ ~Has(result', Reverse) =>
                    count' = count
       /\ op' = "yield" => result' = None /\ count' = count
       /\ op = "yield" => op' \in {"yield", "waitForStatus"}]_vars

\* waitForStatus has returned Forward, the counter stepped from 0 to 1
C13_Witness ==
    /\ op = "waitForStatus"
    /\ result = Forward
    /\ encoderStatus = -1
    /\ lowerLimit = 0
    /\ stepWidth = 1
    /\ count = 1

\* C14: in a forward cycle (1,0), (1,1), (0,1), (0,0) that starts from
\* state 0 or from a sentinel and in which each sample is polled once or
\* several times in a row, the first poll of the closing (0,0) returns
\* Forward and no other poll returns a movement flag, so the counter takes
\* exactly one step, at that poll; likewise for Reverse with the samples
\* (0,1), (1,1), (1,0), (0,0).
C14_RepeatedSamples ==
    /\ rep.dir = Forward =>
          /\ Has(result, Forward) <=> (rep.ph = 4 /\ rep.first)
          /\ ~Has(result, Reverse)
          /\ count = IF rep.ph = 4
                     THEN Stepped(rep.cnt0, Wrap(rep.cnt0 + stepWidth))
                     ELSE rep.cnt0
    /\ rep.dir = Reverse =>
          /\ Has(result, Reverse) <=> (rep.ph = 4 /\ rep.first)
          /\ ~Has(result, Forward)
          /\ count = IF rep.ph = 4
                     THEN Stepped(rep.cnt0, Wrap(rep.cnt0 - stepWidth))
                     ELSE rep.cnt0

\* the closing (0,0) of a reverse cycle has been polled again, after the
\* poll that reported the step from 3 down to 2
C14_Witness ==
    /\ rep.dir = Reverse
    /\ rep.ph = 4
    /\ ~rep.first
    /\ result = None
    /\ stepWidth = 1
    /\ rep.cnt0 = 3
    /\ count = 2

\* C15: the quadrature state is always one of -2..6; what a poll indexes
\* the table with, the state with a negative value cleared, is a column
\* of the table; and the state is -1 (resp. -2) only while the last poll
\* is the one that reported Forward (resp. Reverse).
C15_StateInTable ==
    /\ encoderStatus \in -2..6
    /\ Normalise(encoderStatus) \in 0..6
    /\ Normalise(encoderStatus) + 1 \in DOMAIN transition[1]
    /\ encoderStatus = -1 => Has(lastResult, Forward)
    /\ encoderStatus = -2 => Has(lastResult, Reverse)

\* the reverse sentinel is still held after a setCount that followed the
\* poll that reported Reverse
C15_Witness ==
    /\ encoderStatus = -2
    /\ op = "setCount"
    /\ Has(lastResult, Reverse)

\* C16: a poll that completes a forward step (the lookup yields -1) while
\* count + stepWidth lies above upperLimit leaves the count at its old
\* value and returns Forward; a poll that completes a reverse step (-2)
\* while count - stepWidth lies below lowerLimit leaves the count at its
\* old value and returns Reverse.
C16_RejectedStep ==
    [][op' \in {"getStatus", "yield", "waitForStatus"} =>
          /\ (encoderStatus' = -1 /\ count + stepWidth > upperLimit) =>
                 count' = count /\ Has(result', Forward)
          /\ (encoderStatus' = -2 /\ count - stepWidth < lowerLimit) =>
                 count' = count /\ Has(result', Reverse)]_vars

\* the Forward and Reverse flags of the flag set r
Movement(r) == r % (2 * Reverse)

\* C17: after every poll the decoder returned the movement flags the
\* second decoder returned, and holds the count and the quadrature state
\* the second decoder holds, whatever its switch samples, timeouts and
\* clock values were.
C17_MovementIgnoresSwitch ==
    /\ Movement(result) = twin.mov
    /\ count = twin.count
    /\ encoderStatus = twin.enc

\* one decoder reports the forward step together with a long press while
\* the second, its switch released, reports the forward step alone
C17_Witness ==
    /\ result = BitOr(Forward, ButtonLongPressed)
    /\ twin.mov = Forward
    /\ twin.count = 2
    /\ timeout > 0

\* C18: a poll that returns Forward leaves the count unchanged or larger
\* by exactly stepWidth, and a poll that returns Reverse leaves it
\* unchanged or smaller by exactly stepWidth, for every stepWidth of the
\* unsigned range.
C18_StepDirection ==
    [][op' \in {"getStatus", "yield", "waitForStatus"} =>
          /\ Has(result', Forward) =>
                 count' = count \/ count' = count + stepWidth
          /\ Has(result', Reverse) =>
                 count' = count \/ count' = count - stepWidth]_vars

\* what C19 says of one step: from the forward half 1..3 the state stays
\* in that half without decreasing, or becomes -1 with Forward returned;
\* from the reverse half 4..6 it stays in that half without decreasing, or
\* becomes -2 with Reverse returned; it becomes 0 only from a sentinel;
\* and no poll from 1..3 returns Reverse, none from 4..6 Forward.
Committed ==
    /\ encoderStatus \in 1..3 =>
          \/ encoderStatus' \in encoderStatus..3
          \/ encoderStatus' = -1 /\ Has(result', Forward)
    /\ encoderStatus \in 4..6 =>
          \/ encoderStatus' \in encoderStatus..6
          \/ encoderStatus' = -2 /\ Has(result', Reverse)
    /\ (encoderStatus' = 0 /\ encoderStatus # 0) => encoderStatus < 0
    /\ op' \in {"getStatus", "yield", "waitForStatus"} =>
          /\ encoderStatus \in 1..3 => ~Has(result', Reverse)
          /\ encoderStatus \in 4..6 => ~Has(result', Forward)

\* C19 as stated: every step of the decoder keeps to the direction the
\* quadrature state has committed to.
C19_Committed == [][Committed]_vars

\* C19 amended: every step other than a call of begin() keeps to the
\* direction the quadrature state has committed to.
C19_CommittedNoBegin == [][op' # "begin" => Committed]_vars

\* a poll inside waitForStatus has taken the state to 3, the end of the
\* forward half, which only polls from states 2 and 3 reach
C19_Witness ==
    /\ encoderStatus = 3
    /\ op = "yield"
    /\ result = None

\* C20: with no begin() between the polls, a result contains at most one
\* of ButtonPressed, ButtonLongPressed and ButtonReleased; ButtonPressed
\* is returned only when the edge reported last was not a press (none yet,
\* or a release), ButtonReleased only when it was a press, and
\* ButtonLongPressed only when it was a press.
C20_ButtonOrder ==
    [][op' \in {"getStatus", "yield", "waitForStatus"} =>
          /\ Bit(result', ButtonPressed) + Bit(result', ButtonLongPressed)
                + Bit(result', ButtonReleased) <= 1
          /\ Has(result', ButtonPressed) => ~down
          /\ Has(result', ButtonReleased) => down
          /\ Has(result', ButtonLongPressed) => down]_vars

\* a long press has been reported after the press, before any release
C20_Witness ==
    /\ op = "getStatus"
    /\ result = ButtonLongPressed
    /\ down
    /\ switchStatus = HIGH

=============================================================================
